---- MODULE Spec2Model ----
(***************************************************************************)
(* Model of the Text Studio editor component (src/src/app/page.tsx): the   *)
(* React state of Home, the editable surface behind editorRef, and the     *)
(* event handlers wired to the toolbar, the surface and selectionchange.   *)
(* Strings are sequences of one-character strings, so that the string      *)
(* functions the component uses (replace, trim, split, toLowerCase) and    *)
(* the host's innerHTML / innerText conversions are computed, not assumed. *)
(***************************************************************************)
EXTENDS Integers, Sequences, FiniteSets, TLC

(***************************************************************************)
(* JavaScript string primitives used by the component.                     *)
(***************************************************************************)

\* The characters /\s/ matches, among those the model's texts use.
Whitespace == {" ", "\n", "\t"}

\* The characters of the sentence splitter /[.!?]+/.
Terminators == {".", "!", "?"}

\* Least index j >= i with s[j] in cs, or 0 when there is none.
FirstIndex(s, cs, i) ==
  LET js == {j \in i..Len(s) : s[j] \in cs}
  IN IF js = {} THEN 0 ELSE CHOOSE j \in js : \A k \in js : j <= k

IndexOf(s, c, i) == FirstIndex(s, {c}, i)

\* The concatenation of a sequence of strings.
RECURSIVE Concat(_)
Concat(ss) ==
  IF Len(ss) = 0 THEN <<>>
  ELSE IF Len(ss) = 1 THEN ss[1]
  ELSE LET h == Len(ss) \div 2
       IN Concat(SubSeq(ss, 1, h)) \o Concat(SubSeq(ss, h + 1, Len(ss)))

\* String.prototype.trim: leading and trailing whitespace removed.
trim(s) ==
  LET n == Len(s)
      first == FirstIndex(s, {s[i] : i \in 1..n} \ Whitespace, 1)
      reversed == [i \in 1..n |-> s[n + 1 - i]]
      last == FirstIndex(reversed, {s[i] : i \in 1..n} \ Whitespace, 1)
  IN IF first = 0 THEN <<>> ELSE SubSeq(s, first, n + 1 - last)

\* s.replace(/<[^>]+>/g, " "): a "<", one or more characters other than ">",
\* then ">" becomes one space; scanning resumes after the match.
RECURSIVE StripTagsFrom(_, _)
StripTagsFrom(s, i) ==
  LET k == IndexOf(s, "<", i)
      j == IndexOf(s, ">", k + 1)
  IN IF k = 0 THEN SubSeq(s, i, Len(s))
     ELSE IF j > k + 1
          THEN SubSeq(s, i, k - 1) \o <<" ">> \o StripTagsFrom(s, j + 1)
          ELSE SubSeq(s, i, k) \o StripTagsFrom(s, k + 1)

StripTags(s) == StripTagsFrom(s, 1)

\* s.replace(/\s+/g, " "): every run of whitespace becomes one space.
CollapseWhitespace(s) ==
  Concat([i \in 1..Len(s) |->
            IF s[i] \notin Whitespace THEN <<s[i]>>
            ELSE IF i > 1 /\ s[i - 1] \in Whitespace THEN <<>>
            ELSE <<" ">>])

\* s.split(/[seps]+/): the segments between runs of separator characters,
\* the empty segments a leading or trailing run leaves included.
RECURSIVE SplitFrom(_, _, _)
SplitFrom(s, seps, i) ==
  LET k == FirstIndex(s, seps, i)
      rest == {j \in k..Len(s) : s[j] \notin seps}
      e == IF rest = {} THEN Len(s) + 1
           ELSE CHOOSE j \in rest : \A x \in rest : j <= x
  IN IF k = 0 THEN <<SubSeq(s, i, Len(s))>>
     ELSE <<SubSeq(s, i, k - 1)>> \o SplitFrom(s, seps, e)

Split(s, seps) == SplitFrom(s, seps, 1)

\* Array.prototype.filter(Boolean) on an array of strings: "" is falsy.
FilterBoolean(segs) == SelectSeq(segs, LAMBDA x : x # <<>>)

\* String.prototype.toLowerCase, on the letters block tags are made of.
LowerOf(c) ==
  CASE c = "B" -> "b" [] c = "C" -> "c" [] c = "D" -> "d" [] c = "E" -> "e"
    [] c = "H" -> "h" [] c = "I" -> "i" [] c = "K" -> "k" [] c = "L" -> "l"
    [] c = "O" -> "o" [] c = "P" -> "p" [] c = "Q" -> "q" [] c = "R" -> "r"
    [] c = "T" -> "t" [] c = "U" -> "u" [] c = "V" -> "v" [] c = "Y" -> "y"
    [] OTHER -> c

toLowerCase(s) == [i \in 1..Len(s) |-> LowerOf(s[i])]

\* s.replace(/[<>]/g, "")
StripDelimiters(s) == SelectSeq(s, LAMBDA c : c \notin {"<", ">"})

(***************************************************************************)
(* Constants of the component.                                             *)
(***************************************************************************)

\* The starter markup, one element per UTF-16 code unit ("U+2728" is the
\* single code unit of the sparkles sign).
DEFAULT_MARKUP ==
  <<
    "<", "h", "2", ">", "T", "e", "l", "l", " ", "y", "o", "u", "r", " ",
    "s", "t", "o", "r", "y", " ", "U+2728", "<", "/", "h", "2", ">", "<",
    "p", ">", "H", "i", "g", "h", "l", "i", "g", "h", "t", " ", "a", " ",
    "s", "e", "n", "t", "e", "n", "c", "e", " ", "t", "o", " ", "f", "o",
    "r", "m", "a", "t", " ", "i", "t", " ", "o", "r", " ", "p", "i", "c",
    "k", " ", "a", " ", "c", "o", "l", "o", "r", " ", "t", "o", " ", "m",
    "a", "k", "e", " ", "i", "t", " ", "p", "o", "p", ".", " ", "E", "v",
    "e", "r", "y", "t", "h", "i", "n", "g", " ", "y", "o", "u", " ", "w",
    "r", "i", "t", "e", " ", "a", "p", "p", "e", "a", "r", "s", " ", "i",
    "n", "s", "t", "a", "n", "t", "l", "y", " ", "i", "n", " ", "t", "h",
    "e", " ", "l", "i", "v", "e", " ", "p", "r", "e", "v", "i", "e", "w",
    ".", "<", "/", "p", ">"
  >>

DEFAULT_PLAIN == trim(CollapseWhitespace(StripTags(DEFAULT_MARKUP)))

DEFAULT_FOREGROUND == "#1f2933"
DEFAULT_BACKGROUND == "#ffffff"

\* The tag name "p", the block type of a paragraph.
PARAGRAPH == <<"p">>

\* The value queryCommandValue reports for the implicit root container.
ROOT_CONTAINER == <<"b", "o", "d", "y">>

inlineButtons == <<"bold", "italic", "underline", "strikeThrough">>
listButtons == <<"insertOrderedList", "insertUnorderedList">>
alignmentButtons ==
  <<"justifyLeft", "justifyCenter", "justifyRight", "justifyFull">>

\* [...inlineButtons, ...listButtons, ...alignmentButtons]
ToggleButtons == inlineButtons \o listButtons \o alignmentButtons

ToggleCommands == {ToggleButtons[i] : i \in 1..Len(ToggleButtons)}

\* The values of the block selector's options.
blockOptions ==
  << <<"p">>, <<"h", "1">>, <<"h", "2">>, <<"h", "3">>,
     <<"b", "l", "o", "c", "k", "q", "u", "o", "t", "e">> >>

(***************************************************************************)
(* The host engine's side of the editable surface.  The surface's content  *)
(* is a document: its nodes in document order, each an element start       *)
(* (kind "open", data = the text between "<" and ">"), an element end      *)
(* (kind "close", data = the tag name) or one character of text (kind      *)
(* "char").  innerHTML's setter parses markup into a document, its getter  *)
(* serializes the document, and innerText renders it as plain text.        *)
(***************************************************************************)

Open(raw) == [kind |-> "open", data |-> raw]
Close(name) == [kind |-> "close", data |-> name]
Char(c) == [kind |-> "char", data |-> <<c>>]

\* Character references the parser decodes and the serializer writes.
Entities ==
  << [char |-> "&", ref |-> <<"&", "a", "m", "p", ";">>],
     [char |-> "<", ref |-> <<"&", "l", "t", ";">>],
     [char |-> ">", ref |-> <<"&", "g", "t", ";">>] >>

StartsWith(s, i, p) ==
  i + Len(p) - 1 <= Len(s) /\ SubSeq(s, i, i + Len(p) - 1) = p

\* Setting innerHTML: the markup's tags and text, character references
\* decoded.  Text up to the next "<" or "&" is taken as it stands.
RECURSIVE ParseFrom(_, _)
ParseFrom(m, i) ==
  LET k == FirstIndex(m, {"<", "&"}, i)
      j == IndexOf(m, ">", k + 1)
      es == {e \in 1..Len(Entities) : StartsWith(m, k, Entities[e].ref)}
      text == [x \in 1..((IF k = 0 THEN Len(m) + 1 ELSE k) - i) |->
                 Char(m[i + x - 1])]
  IN IF k = 0 THEN text
     ELSE text \o
          (IF m[k] = "<" /\ j > k + 1
           THEN IF m[k + 1] = "/"
                THEN <<Close(SubSeq(m, k + 2, j - 1))>> \o ParseFrom(m, j + 1)
                ELSE <<Open(SubSeq(m, k + 1, j - 1))>> \o ParseFrom(m, j + 1)
           ELSE IF es # {}
                THEN LET e == CHOOSE x \in es : TRUE
                     IN <<Char(Entities[e].char)>>
                          \o ParseFrom(m, k + Len(Entities[e].ref))
                ELSE <<Char(m[k])>> \o ParseFrom(m, k + 1))

Parse(m) == ParseFrom(m, 1)

EscapeChar(c) ==
  LET es == {e \in 1..Len(Entities) : Entities[e].char = c}
  IN IF es = {} THEN <<c>> ELSE Entities[CHOOSE x \in es : TRUE].ref

\* Reading innerHTML: the document written back as markup.
Serialize(d) ==
  Concat([i \in 1..Len(d) |->
            CASE d[i].kind = "open" -> <<"<">> \o d[i].data \o <<">">>
              [] d[i].kind = "close" -> <<"<", "/">> \o d[i].data \o <<">">>
              [] OTHER -> EscapeChar(d[i].data[1])])

\* The tag name of an element start: what precedes its attributes.
RECURSIVE TagName(_)
TagName(raw) ==
  IF raw = <<>> \/ Head(raw) \in Whitespace THEN <<>>
  ELSE <<Head(raw)>> \o TagName(Tail(raw))

ParagraphTags == {<<"p">>}

OtherBlockTags ==
  { <<"h", "1">>, <<"h", "2">>, <<"h", "3">>, <<"d", "i", "v">>,
    <<"b", "l", "o", "c", "k", "q", "u", "o", "t", "e">>,
    <<"u", "l">>, <<"o", "l">>, <<"l", "i">> }

LineBreakTags == {<<"b", "r">>}

\* Rendering, first pass: text characters (whitespace as a space), "\n" for
\* a line break element, and a required line break - two lines for a
\* paragraph, one for any other block - at each end of a block.
RenderItems(d) ==
  Concat([i \in 1..Len(d) |->
            LET n == d[i]
                name == IF n.kind = "open" THEN TagName(n.data) ELSE n.data
            IN CASE n.kind = "char" ->
                      IF n.data[1] \in Whitespace THEN <<" ">> ELSE n.data
                 [] n.kind # "char" /\ name \in ParagraphTags -> <<"<RLB2>">>
                 [] n.kind # "char" /\ name \in OtherBlockTags -> <<"<RLB1>">>
                 [] n.kind = "open" /\ name \in LineBreakTags -> <<"\n">>
                 [] OTHER -> <<>>])

RequiredBreaks == {"<RLB1>", "<RLB2>"}

LineBoundaries == RequiredBreaks \cup {"\n"}

\* Rendering, second pass (white-space: normal): a space that follows a
\* space or starts a line is dropped ...
CollapseSpaces(items) ==
  Concat([i \in 1..Len(items) |->
            IF items[i] = " "
               /\ (i = 1 \/ items[i - 1] \in LineBoundaries \cup {" "})
            THEN <<>> ELSE <<items[i]>>])

\* ... and so is a space that ends a line.
DropLineEndSpaces(items) ==
  Concat([i \in 1..Len(items) |->
            IF items[i] = " "
               /\ (i = Len(items) \/ items[i + 1] \in LineBoundaries)
            THEN <<>> ELSE <<items[i]>>])

\* Rendering, last pass: a run of required line breaks becomes as many "\n"
\* as its largest count, and nothing at either end of the text.
ResolveBreaks(items) ==
  LET n == Len(items)
      RunEnd(i) ==
        LET after == {j \in i..n : items[j] \notin RequiredBreaks}
        IN IF after = {} THEN n + 1
           ELSE CHOOSE j \in after : \A x \in after : j <= x
      Count(i) ==
        IF \E j \in i..(RunEnd(i) - 1) : items[j] = "<RLB2>" THEN 2 ELSE 1
      leading == {i \in 1..n : \A j \in 1..i : items[j] \in RequiredBreaks}
  IN Concat([i \in 1..n |->
               IF items[i] \notin RequiredBreaks THEN <<items[i]>>
               ELSE IF i > 1 /\ items[i - 1] \in RequiredBreaks THEN <<>>
               ELSE IF i \in leading \/ RunEnd(i) = n + 1 THEN <<>>
               ELSE [x \in 1..Count(i) |-> "\n"]])

\* Reading innerText: the rendered text of the document.
InnerText(d) ==
  ResolveBreaks(DropLineEndSpaces(CollapseSpaces(RenderItems(d))))

(***************************************************************************)
(* What the host and the user may supply.                                  *)
(***************************************************************************)

\* the user deleted everything
EmptyMarkup ==
  <<>>

\* <h1>Hi!</h1><p><b>Ok.</b> a &amp; b</p>
HeadingMarkup ==
  << "<", "h", "1", ">", "H", "i", "!", "<", "/", "h", "1", ">", "<", "p",
     ">", "<", "b", ">", "O", "k", ".", "<", "/", "b", ">", " ", "a", " ",
     "&", "a", "m", "p", ";", " ", "b", "<", "/", "p", ">" >>

\* <p>x <font color="#ff0000">y</font><br>z</p>
ColoredMarkup ==
  << "<", "p", ">", "x", " ", "<", "f", "o", "n", "t", " ", "c", "o", "l",
     "o", "r", "=", "\"", "#", "f", "f", "0", "0", "0", "0", "\"", ">",
     "y", "<", "/", "f", "o", "n", "t", ">", "<", "b", "r", ">", "z", "<",
     "/", "p", ">" >>

\* The documents typing or a host command may leave in the surface.
HostDocuments ==
  {Parse(m) : m \in {DEFAULT_MARKUP, EmptyMarkup, HeadingMarkup,
                     ColoredMarkup}}

\* The colors a color input may report.
PickColors == {"#ff0000", "#ffffff"}

\* An argument that is not passed.
UNDEFINED == <<"undefined">>

\* A host query that throws instead of returning.
QUERY_THROWS == <<"throws">>

\* What queryCommandValue("formatBlock") may report.
QueriedBlockValues ==
  { <<>>, <<"<", "H", "2", ">">>, ROOT_CONTAINER,
    <<"<", "B", "O", "D", "Y", ">">>, QUERY_THROWS }

\* How many toggle commands, counted from the head of the registry, may
\* answer a state query with other than "false".
MaxVaryingCommands == 2

\* What queryCommandState may answer for the toggle commands at one
\* selection: "true", "false", or "throws" for a query that fails.
QueryOutcomes ==
  LET varying == {ToggleButtons[i] : i \in 1..MaxVaryingCommands}
  IN { [c \in ToggleCommands |-> IF c \in varying THEN f[c] ELSE "false"] :
         f \in [varying -> {"true", "false", "throws"}] }

\* document.getSelection(): none, one without an anchor node, one anchored
\* outside the surface, one anchored inside it.
Selections == {"null", "no anchor", "outside", "inside"}

(***************************************************************************)
(* State: the hooks of Home, the surface behind editorRef, and a record of *)
(* the last handler and the host operations it issued.                     *)
(***************************************************************************)

VARIABLES
  lifecycle,       \* "constructed", "mounted" (editorRef.current is the
                   \* surface) or "unmounted" (editorRef.current is null)
  surface,         \* the document in the surface
  focused,         \* whether the surface has the input focus
  html,            \* useState: the stored markup
  plain,           \* useState: the stored plain text
  stats,           \* useMemo: the displayed statistics
  activeCommands,  \* useState: command -> boolean, {} when cleared
  blockType,       \* useState: the block selector's value
  foreground,      \* useState
  background,      \* useState
  hostCalls,       \* host operations issued by the last handler, in order
  lastCall,        \* the last handler run
  resetRun         \* how many times in a row reset() has just run

vars ==
  <<lifecycle, surface, focused, html, plain, stats, activeCommands,
    blockType, foreground, background, hostCalls, lastCall, resetRun>>

\* {} as a Record<string, boolean>
EmptyRecord == [c \in {} |-> FALSE]

\* Variant of computeStats: the sentence segments are counted without
\* filter(Boolean), so the empty segment after a final "." counts too.
computeStatsUnfiltered(t) ==
  [ words |-> IF trim(t) # <<>>
              THEN Len(FilterBoolean(Split(trim(t), Whitespace)))
              ELSE 0,
    characters |-> Len(t),
    sentences |-> IF t # <<>> THEN Len(Split(t, Terminators)) ELSE 0 ]

\* The useMemo body: words, characters and sentences of the plain text.
computeStats(t) ==
  [ words |-> IF trim(t) # <<>>
              THEN Len(FilterBoolean(Split(trim(t), Whitespace)))
              ELSE 0,
    characters |-> Len(t),
    sentences |-> IF t # <<>>
                  THEN Len(FilterBoolean(Split(t, Terminators)))
                  ELSE 0 ]

\* computeStats, kept for the texts the model's documents render to.
KnownStats ==
  [t \in {DEFAULT_PLAIN} \cup {InnerText(d) : d \in HostDocuments} |->
     computeStats(t)]

statsOf(t) ==
  IF t \in DOMAIN KnownStats THEN KnownStats[t] ELSE computeStats(t)

State ==
  [ lifecycle |-> lifecycle, surface |-> surface, focused |-> focused,
    html |-> html, plain |-> plain, stats |-> stats,
    activeCommands |-> activeCommands, blockType |-> blockType,
    foreground |-> foreground, background |-> background,
    hostCalls |-> hostCalls, lastCall |-> lastCall, resetRun |-> resetRun ]

\* Longest run of consecutive resets that is told apart from a longer one.
MaxResetRun == 2

\* The state a handler named fn starts from.
Begin(fn) ==
  [State EXCEPT !.hostCalls = <<>>, !.lastCall = fn,
                !.resetRun = IF fn # "reset" THEN 0
                             ELSE IF @ < MaxResetRun THEN @ + 1 ELSE @]

\* The re-render that follows a handler: useMemo recomputes stats when its
\* dependency, plain, is not the one of the last render.
render(s) ==
  IF s.plain = plain THEN s ELSE [s EXCEPT !.stats = statsOf(s.plain)]

Become(next) ==
  \E s \in {next} :
  /\ lifecycle' = s.lifecycle
  /\ surface' = s.surface
  /\ focused' = s.focused
  /\ html' = s.html
  /\ plain' = s.plain
  /\ stats' = s.stats
  /\ activeCommands' = s.activeCommands
  /\ blockType' = s.blockType
  /\ foreground' = s.foreground
  /\ background' = s.background
  /\ hostCalls' = s.hostCalls
  /\ lastCall' = s.lastCall
  /\ resetRun' = s.resetRun

(***************************************************************************)
(* Host operations.                                                        *)
(***************************************************************************)

\* Serialize and InnerText, kept for the model's documents.
DocumentViews ==
  [d \in HostDocuments |->
     [innerHTML |-> Serialize(d), innerText |-> InnerText(d)]]

\* editor.innerHTML (read)
innerHTML(d) ==
  IF d \in DOMAIN DocumentViews THEN DocumentViews[d].innerHTML
  ELSE Serialize(d)

\* editor.innerText
innerText(d) ==
  IF d \in DOMAIN DocumentViews THEN DocumentViews[d].innerText
  ELSE InnerText(d)

call(s, op) == [s EXCEPT !.hostCalls = Append(@, op)]

\* editor.focus()
focus(s) == [call(s, <<"focus">>) EXCEPT !.focused = TRUE]

\* document.execCommand(command, false, value): the host rewrites the
\* document of the focused surface (to result); without focus there is
\* nothing for the command to act on.
execCommand(s, command, value, result) ==
  LET s1 == call(s, <<"execCommand", command, value>>)
  IN IF s.focused THEN [s1 EXCEPT !.surface = result] ELSE s1

\* editor.innerHTML = markup
setInnerHTML(s, markup) ==
  [call(s, <<"set innerHTML">>) EXCEPT !.surface = Parse(markup)]

(***************************************************************************)
(* The component's callbacks, as functions from state to state.            *)
(***************************************************************************)

updateStateFromEditor(s) ==
  IF s.lifecycle # "mounted" THEN s
  ELSE LET s1 == call(s, <<"get innerHTML">>)
           s2 == [s1 EXCEPT !.html = innerHTML(s1.surface)]
           s3 == call(s2, <<"get innerText">>)
       IN [s3 EXCEPT !.plain = innerText(s3.surface)]

\* Variant of exec: no check of editorRef.current.
execUnguarded(s, command, value, result) ==
  updateStateFromEditor(execCommand(focus(s), command, value, result))

\* Variant of exec: the snapshot is taken before the command is applied.
execStale(s, command, value, result) ==
  IF s.lifecycle # "mounted" THEN s
  ELSE execCommand(updateStateFromEditor(focus(s)), command, value, result)

exec(s, command, value, result) ==
  IF s.lifecycle # "mounted" THEN s
  ELSE LET s1 == focus(s)
           s2 == IF command = "formatBlock"
                 THEN execCommand(s1, command,
                        IF value = UNDEFINED THEN PARAGRAPH ELSE value,
                        result)
                 ELSE execCommand(s1, command, value, result)
       IN updateStateFromEditor(s2)

\* Variant of forEachButton: one try/catch around the whole loop, so the
\* first failing query ends it.
RECURSIVE forEachButtonOneTry(_, _, _)
forEachButtonOneTry(buttons, q, acc) ==
  IF buttons = <<>> THEN acc
  ELSE LET command == Head(buttons)
           asked == call(acc, <<"queryCommandState", command, q[command]>>)
       IN IF q[command] = "throws" THEN asked
          ELSE forEachButtonOneTry(Tail(buttons), q,
                 [asked EXCEPT !.nextState =
                    @ @@ (command :> q[command] = "true")])

\* The forEach over the toggle buttons: each query in its own try/catch.
RECURSIVE forEachButton(_, _, _)
forEachButton(buttons, q, acc) ==
  IF buttons = <<>> THEN acc
  ELSE LET command == Head(buttons)
           asked == call(acc, <<"queryCommandState", command, q[command]>>)
       IN forEachButton(Tail(buttons), q,
            [asked EXCEPT !.nextState =
               @ @@ (command :> IF q[command] = "throws" THEN FALSE
                                ELSE q[command] = "true")])

\* Variant of currentBlockOf: "body" is not mapped to "p".
currentBlockOfUnmapped(queried) ==
  IF queried = QUERY_THROWS THEN PARAGRAPH
  ELSE IF queried # <<>> THEN toLowerCase(StripDelimiters(queried))
  ELSE PARAGRAPH

\* currentBlock: "p" unless the block-format query returns a truthy value,
\* then that value without "<" and ">" and in lower case; "body" is shown
\* as "p".
currentBlockOf(queried) ==
  LET currentBlock ==
        IF queried = QUERY_THROWS THEN PARAGRAPH
        ELSE IF queried # <<>> THEN toLowerCase(StripDelimiters(queried))
        ELSE PARAGRAPH
  IN IF currentBlock = ROOT_CONTAINER THEN PARAGRAPH ELSE currentBlock

handleSelection(s, selection, q, queried) ==
  LET s1 == call(s, <<"getSelection">>)
      s2 == call(s1, <<"contains">>)
      looped == forEachButton(ToggleButtons, q,
                  [nextState |-> EmptyRecord, hostCalls |-> s2.hostCalls])
      s3 == call([s2 EXCEPT !.hostCalls = looped.hostCalls],
                 <<"queryCommandValue", queried>>)
  IN IF s.lifecycle # "mounted" \/ selection = "null"
     THEN [s1 EXCEPT !.activeCommands = EmptyRecord]
     ELSE IF selection = "no anchor"
     THEN [s1 EXCEPT !.activeCommands = EmptyRecord]
     ELSE IF selection # "inside"
     THEN [s2 EXCEPT !.activeCommands = EmptyRecord]
     ELSE [s3 EXCEPT !.activeCommands = looped.nextState,
                     !.blockType = currentBlockOf(queried)]

handleInput(s) == updateStateFromEditor(s)

\* Variant of handleColorPick: the else before setBackground is missing.
handleColorPickNoElse(s, command, color, result) ==
  IF s.lifecycle # "mounted" THEN s
  ELSE LET s3 == updateStateFromEditor(
                   execCommand(focus(s), command, <<color>>, result))
       IN IF command = "foreColor"
          THEN [s3 EXCEPT !.foreground = color, !.background = color]
          ELSE [s3 EXCEPT !.background = color]

handleColorPick(s, command, color, result) ==
  IF s.lifecycle # "mounted" THEN s
  ELSE LET s1 == focus(s)
           s2 == execCommand(s1, command, <<color>>, result)
           s3 == updateStateFromEditor(s2)
       IN IF command = "foreColor"
          THEN [s3 EXCEPT !.foreground = color]
          ELSE [s3 EXCEPT !.background = color]

\* Variant of reset: setBlockType("p") is missing.
resetKeepsBlockType(s) ==
  IF s.lifecycle # "mounted" THEN s
  ELSE [updateStateFromEditor(setInnerHTML(s, DEFAULT_MARKUP)) EXCEPT
          !.foreground = DEFAULT_FOREGROUND,
          !.background = DEFAULT_BACKGROUND,
          !.activeCommands = EmptyRecord]

\* Variant of reset: the starter markup is appended (innerHTML +=).
resetAppends(s) ==
  IF s.lifecycle # "mounted" THEN s
  ELSE [updateStateFromEditor(
          [call(s, <<"set innerHTML">>) EXCEPT
             !.surface = @ \o Parse(DEFAULT_MARKUP)]) EXCEPT
          !.foreground = DEFAULT_FOREGROUND,
          !.background = DEFAULT_BACKGROUND,
          !.activeCommands = EmptyRecord,
          !.blockType = PARAGRAPH]

reset(s) ==
  IF s.lifecycle # "mounted" THEN s
  ELSE LET s1 == setInnerHTML(s, DEFAULT_MARKUP)
           s2 == updateStateFromEditor(s1)
       IN [s2 EXCEPT !.foreground = DEFAULT_FOREGROUND,
                     !.background = DEFAULT_BACKGROUND,
                     !.activeCommands = EmptyRecord,
                     !.blockType = PARAGRAPH]

\* The effect run once after the first render.
mountEffect(s) ==
  IF s.lifecycle = "mounted" THEN setInnerHTML(s, DEFAULT_MARKUP) ELSE s

(***************************************************************************)
(* The component after construction, and the events it handles.            *)
(***************************************************************************)

Init ==
  /\ lifecycle = "constructed"
  /\ surface = <<>>
  /\ focused = FALSE
  /\ html = DEFAULT_MARKUP
  /\ plain = DEFAULT_PLAIN
  /\ stats = statsOf(DEFAULT_PLAIN)
  /\ activeCommands = EmptyRecord
  /\ blockType = PARAGRAPH
  /\ foreground = DEFAULT_FOREGROUND
  /\ background = DEFAULT_BACKGROUND
  /\ hostCalls = <<>>
  /\ lastCall = "init"
  /\ resetRun = 0

\* React attaches the ref and runs the mount effect.
Mount ==
  /\ lifecycle = "constructed"
  /\ Become(render(mountEffect([Begin("mountEffect") EXCEPT
                                  !.lifecycle = "mounted"])))

\* The user edits the surface (which takes the focus); onInput fires.
TypeInSurface ==
  /\ lifecycle = "mounted"
  /\ \E doc \in HostDocuments :
       Become(render(handleInput([Begin("handleInput") EXCEPT
                                    !.focused = TRUE, !.surface = doc])))

\* A toolbar button: onMouseDown keeps the focus where it is, onClick runs
\* exec(button.command, button.value); no button of the registry has a
\* value.
ClickToolbarButton ==
  /\ lifecycle = "mounted"
  /\ \E i \in 1..Len(ToggleButtons), result \in HostDocuments :
       Become(render(exec(Begin("exec"), ToggleButtons[i], UNDEFINED,
                          result)))

\* The block selector: exec("formatBlock", `<${value}>`).
ChooseBlock ==
  /\ lifecycle = "mounted"
  /\ \E i \in 1..Len(blockOptions), result \in HostDocuments :
       Become(render(exec(Begin("exec"), "formatBlock",
                          <<"<">> \o blockOptions[i] \o <<">">>, result)))

\* The Clear button: exec("removeFormat").
ClickClear ==
  /\ lifecycle = "mounted"
  /\ \E result \in HostDocuments :
       Become(render(exec(Begin("exec"), "removeFormat", UNDEFINED, result)))

\* A color input (which takes the focus) reports a color.
PickColor ==
  /\ lifecycle = "mounted"
  /\ \E command \in {"foreColor", "backColor"}, color \in PickColors,
        result \in HostDocuments :
       Become(render(handleColorPick(
                [Begin("handleColorPick") EXCEPT !.focused = FALSE],
                command, color, result)))

\* The reset button (which takes the focus).
ClickReset ==
  /\ lifecycle = "mounted"
  /\ Become(render(reset([Begin("reset") EXCEPT !.focused = FALSE])))

\* selectionchange with the selection missing or outside the surface.
SelectionChangeOutside ==
  /\ lifecycle = "mounted"
  /\ \E selection \in Selections \ {"inside"} :
       Become(render(handleSelection(Begin("handleSelection"), selection,
                                     [c \in ToggleCommands |-> "false"],
                                     <<>>)))

\* selectionchange with the selection inside the surface.
SelectionChangeInside ==
  /\ lifecycle = "mounted"
  /\ \E q \in QueryOutcomes, queried \in QueriedBlockValues :
       Become(render(handleSelection(Begin("handleSelection"), "inside", q,
                                     queried)))

Next ==
  \/ Mount
  \/ TypeInSurface
  \/ ClickToolbarButton
  \/ ChooseBlock
  \/ ClickClear
  \/ PickColor
  \/ ClickReset
  \/ SelectionChangeOutside
  \/ SelectionChangeInside

Spec == Init /\ [][Next]_vars

(***************************************************************************)
(* The callbacks run while editorRef.current is null: before the mount or  *)
(* after React has detached the ref.                                       *)
(***************************************************************************)

\* The twelve commands of the Command type.
Commands == ToggleCommands \cup {"removeFormat", "formatBlock"}

\* React detaches the ref; the surface is gone.
Unmount ==
  /\ lifecycle = "mounted"
  /\ Become([Begin("unmount") EXCEPT !.lifecycle = "unmounted",
                                     !.surface = <<>>, !.focused = FALSE])

CallExecDetached ==
  /\ lifecycle # "mounted"
  /\ \E command \in Commands, result \in HostDocuments,
        value \in {UNDEFINED, <<"<", "h", "1", ">">>} :
       Become(render(exec(Begin("exec"), command, value, result)))

CallColorPickDetached ==
  /\ lifecycle # "mounted"
  /\ \E command \in {"foreColor", "backColor"}, color \in PickColors,
        result \in HostDocuments :
       Become(render(handleColorPick(Begin("handleColorPick"), command,
                                     color, result)))

CallInputDetached ==
  /\ lifecycle # "mounted"
  /\ Become(render(handleInput(Begin("handleInput"))))

CallResetDetached ==
  /\ lifecycle # "mounted"
  /\ Become(render(reset(Begin("reset"))))

CallMountEffectDetached ==
  /\ lifecycle # "mounted"
  /\ Become(render(mountEffect(Begin("mountEffect"))))

CallSelectionDetached ==
  /\ lifecycle # "mounted"
  /\ \E selection \in Selections, q \in QueryOutcomes,
        queried \in QueriedBlockValues :
       Become(render(handleSelection(Begin("handleSelection"), selection, q,
                                     queried)))

NextDetached ==
  \/ Next
  \/ Unmount
  \/ CallExecDetached
  \/ CallColorPickDetached
  \/ CallInputDetached
  \/ CallResetDetached
  \/ CallMountEffectDetached
  \/ CallSelectionDetached

SpecDetached == Init /\ [][NextDetached]_vars

(***************************************************************************)
(* The statistics as a function of the plain text: setPlain with any text  *)
(* of a bounded alphabet and length, and the render that follows.          *)
(***************************************************************************)

\* Longest text tried, in characters.
MaxTextLen == 3

StatAlphabet == {"a", " ", "\n", ".", "!", "?"}

Hello == <<"H", "e", "l", "l", "o", ".">>

HiByeOk ==
  <<"H", "i", "!", " ", "B", "y", "e", "?", " ", "O", "k", ".">>

NoPunctuation ==
  <<"n", "o", " ", "p", "u", "n", "c", "t", "u", "a", "t", "i", "o", "n">>

StatTexts ==
  UNION {[1..n -> StatAlphabet] : n \in 0..MaxTextLen}
    \cup {Hello, HiByeOk, NoPunctuation}

setPlain(s, t) == [s EXCEPT !.plain = t]

SetPlain ==
  \E t \in StatTexts : Become(render(setPlain(Begin("setPlain"), t)))

NextStats == SetPlain

SpecStats == Init /\ [][NextStats]_vars

(***************************************************************************)
(* Properties.                                                             *)
(***************************************************************************)

\* activeCommands[button.command] is falsy for every toggle button.
AllInactive ==
  \A c \in ToggleCommands :
    ~(c \in DOMAIN activeCommands /\ activeCommands[c])

\* The last handler was handleSelection and it took the early return: it
\* never reached the command-state queries.
SelectionWasOutside ==
  /\ lastCall = "handleSelection"
  /\ \A i \in 1..Len(hostCalls) : hostCalls[i][1] # "queryCommandState"

\* The last handler was handleSelection and it queried the host.
SelectionWasInside ==
  /\ lastCall = "handleSelection"
  /\ \E i \in 1..Len(hostCalls) : hostCalls[i][1] = "queryCommandState"

\* C1: after a selection change with the selection absent or outside the
\* surface, every toggle command is inactive and blockType is "p", whatever
\* they were before.
OutsideSelectionIsDefault ==
  SelectionWasOutside => AllInactive /\ blockType = PARAGRAPH

\* C2: reset() leaves the surface content and the stored markup equal to
\* the starter markup, every toggle command inactive, blockType "p",
\* foreground #1f2933 and background #ffffff.
ResetRestoresDefault ==
  lastCall = "reset" =>
    /\ Serialize(surface) = DEFAULT_MARKUP
    /\ html = DEFAULT_MARKUP
    /\ AllInactive
    /\ activeCommands = EmptyRecord
    /\ blockType = PARAGRAPH
    /\ foreground = "#1f2933"
    /\ background = "#ffffff"

\* reset() has run on state the user had changed throughout: the state it
\* leaves is the default one.
ResetRan ==
  /\ lastCall = "reset"
  /\ lifecycle = "mounted"
  /\ html = DEFAULT_MARKUP
  /\ hostCalls = << <<"set innerHTML">>, <<"get innerHTML">>,
                    <<"get innerText">> >>

\* What reset() is said to determine: the editor snapshot, the selection
\* snapshot and the color state (with the surface and the statistics).
Snapshot ==
  <<surface, html, plain, stats, activeCommands, blockType, foreground,
    background>>

\* C3: reset() run right after reset() leaves the editor snapshot, the
\* selection snapshot and the color state as the first reset() left them.
ResetIdempotent ==
  [][(lastCall = "reset" /\ lastCall' = "reset") => Snapshot' = Snapshot]_vars

\* reset() has run twice in a row.
ResetRanTwice ==
  /\ lastCall = "reset"
  /\ resetRun >= 2
  /\ plain = InnerText(Parse(DEFAULT_MARKUP))

\* C4: in every state, the initial one included, plain is the rendered text
\* of the surface whose markup is html (and html is that surface's markup).
PlainIsRenderedText ==
  /\ plain = InnerText(Parse(html))
  /\ lifecycle = "mounted" =>
       html = Serialize(surface) /\ plain = InnerText(surface)

\* The handlers of the surface adapter: commands, color commands, the
\* snapshot refresh and the two that replace the content.
AdapterCalls ==
  {"exec", "handleColorPick", "handleInput", "reset", "mountEffect"}

\* C5: an adapter operation run while editorRef.current is null issues no
\* host operation and changes neither the snapshots nor the colors.
DetachedIsNoOp ==
  [][(lifecycle # "mounted" /\ lifecycle' # "mounted"
        /\ lastCall' \in AdapterCalls)
       => /\ hostCalls' = <<>>
          /\ Snapshot' = Snapshot
          /\ UNCHANGED <<lifecycle, focused>>]_vars

\* A color command was called on an unmounted component whose state the
\* user had changed.
DetachedCallRan ==
  /\ lifecycle = "unmounted"
  /\ lastCall = "handleColorPick"
  /\ html # DEFAULT_MARKUP
  /\ foreground # DEFAULT_FOREGROUND

\* The queryCommandState calls of the last handler, in order.
StateQueries ==
  SelectSeq(hostCalls, LAMBDA e : e[1] = "queryCommandState")

\* C6: with the selection inside, a toggle command whose state query fails
\* is recorded inactive, and all ten toggle commands are still queried, in
\* registry order, and all ten have an entry in activeCommands.
FailedQueryIsInactive ==
  SelectionWasInside =>
    /\ Len(StateQueries) = 10
    /\ \A i \in 1..Len(StateQueries) : StateQueries[i][2] = ToggleButtons[i]
    /\ DOMAIN activeCommands = ToggleCommands
    /\ Cardinality(ToggleCommands) = 10
    /\ \A i \in 1..Len(StateQueries) :
         StateQueries[i][3] = "throws" =>
           activeCommands[StateQueries[i][2]] = FALSE
    /\ hostCalls[Len(hostCalls)][1] = "queryCommandValue"

\* The query for bold failed and italic, queried after it, is active.
FailedQueryThenActive ==
  /\ SelectionWasInside
  /\ StateQueries[1] = <<"queryCommandState", "bold", "throws">>
  /\ activeCommands["italic"]
  /\ ~activeCommands["bold"]

\* C7: exec, typed input and selection changes leave foreground and
\* background as they were; a foreColor pick sets foreground to the picked
\* color and leaves background, a backColor pick the other way round.
ColorStateFrame ==
  [][/\ lastCall' \in {"exec", "handleInput", "handleSelection",
                       "mountEffect"}
          => UNCHANGED <<foreground, background>>
     /\ lastCall' = "handleColorPick"
          => LET picked == hostCalls'[2]
             IN /\ picked[1] = "execCommand"
                /\ picked[2] \in {"foreColor", "backColor"}
                /\ picked[2] = "foreColor"
                     => foreground' = picked[3][1]
                        /\ background' = background
                /\ picked[2] = "backColor"
                     => background' = picked[3][1]
                        /\ foreground' = foreground]_vars

\* Both colors were picked and Clear (removeFormat) ran afterwards.
ClearedWithPickedColors ==
  /\ lastCall = "exec"
  /\ hostCalls[2] = <<"execCommand", "removeFormat", UNDEFINED>>
  /\ foreground = "#ff0000"
  /\ background = "#ff0000"

\* Number of maximal runs of characters outside seps in t.
RunsOutside(t, seps) ==
  Cardinality({i \in 1..Len(t) :
                 t[i] \notin seps /\ (i = 1 \/ t[i - 1] \in seps)})

\* C8: words is the number of whitespace-delimited tokens of plain and is
\* 0 exactly when plain is all whitespace; characters is the length of
\* plain; sentences is the number of non-empty segments between runs of
\* ".", "!" and "?", 0 for the empty text.
StatsAreOfPlain ==
  /\ stats.words = RunsOutside(plain, Whitespace)
  /\ stats.words = 0 <=> \A i \in 1..Len(plain) : plain[i] \in Whitespace
  /\ stats.characters = Len(plain)
  /\ stats.sentences = RunsOutside(plain, Terminators)
  /\ plain = <<>> => stats.sentences = 0
  /\ plain = Hello => stats.sentences = 1
  /\ plain = HiByeOk => stats.sentences = 3
  /\ plain = NoPunctuation => stats.sentences = 1

\* The statistics of "Hi! Bye? Ok." are displayed.
StatsOfExample ==
  plain = HiByeOk /\ stats = [words |-> 3, characters |-> 12, sentences |-> 3]

\* The operations of the last handler, without their arguments.
Operations == [i \in 1..Len(hostCalls) |-> hostCalls[i][1]]

\* C9: a command applied with the surface mounted is, in this order, a
\* focus of the surface, the host command, and the refresh of the
\* snapshot, with no other host operation in between, and the snapshot is
\* the surface as the command left it.
CommandStepsInOrder ==
  (lastCall \in {"exec", "handleColorPick"} /\ lifecycle = "mounted") =>
    /\ Operations =
         <<"focus", "execCommand", "get innerHTML", "get innerText">>
    /\ focused
    /\ html = Serialize(surface)
    /\ plain = InnerText(surface)

\* The block selector was used on the starter text and the host turned it
\* into the heading document.
BlockCommandApplied ==
  /\ lastCall = "exec"
  /\ hostCalls[2] = <<"execCommand", "formatBlock", <<"<", "h", "1", ">">>>>
  /\ html = HeadingMarkup

\* The value the last handler's block-format query reported.
Queried == hostCalls[Len(hostCalls)][2]

UpperCase == {"B", "D", "H", "O", "Y"}

\* C10: with the selection inside, blockType is the reported block format
\* without "<" and ">" and in lower case, "p" where that is "body", and
\* "p" when the query fails or reports the empty value.
BlockTypeNormalized ==
  SelectionWasInside =>
    /\ \A i \in 1..Len(blockType) :
         blockType[i] \notin {"<", ">"} \cup UpperCase
    /\ blockType # <<"b", "o", "d", "y">>
    /\ Queried \in {QUERY_THROWS, <<>>} => blockType = <<"p">>
    /\ Queried = <<"<", "H", "2", ">">> => blockType = <<"h", "2">>
    /\ Queried = <<"b", "o", "d", "y">> => blockType = <<"p">>
    /\ Queried = <<"<", "B", "O", "D", "Y", ">">> => blockType = <<"p">>
    /\ (Queried \notin {QUERY_THROWS, <<>>}
          /\ toLowerCase(StripDelimiters(Queried)) # <<"b", "o", "d", "y">>)
         => blockType = toLowerCase(StripDelimiters(Queried))

\* The host reported the root container in upper case and in delimiters.
RootContainerReported ==
  /\ SelectionWasInside
  /\ Queried = <<"<", "B", "O", "D", "Y", ">">>
  /\ blockType = <<"p">>

====
